---- MODULE Spec2Model ----
(***************************************************************************)
(* Nova Offline Backend (server.py): an HTTP facade over a chat-completion *)
(* server (LM Studio), a speech-to-text model (faster-whisper) and a       *)
(* text-to-speech binary (Piper).                                          *)
(*                                                                         *)
(* Text is a sequence of character codes.  10 is LF, 13 is CR, 32 is the   *)
(* space; every other code used here is an ordinary, non-blank character.  *)
(* The character at position j of a generated text has code 100+j, so that *)
(* a substring is recognisable by its content.  Codes above 200 stand for  *)
(* the fixed JSON literals of the SSE protocol, each a block of text       *)
(* without a line break.                                                   *)
(***************************************************************************)
EXTENDS Integers, Sequences, FiniteSets, TLC

VARIABLES
    PIPER_BIN,    \* the synthesizer executable was resolved at startup
    PIPER_VOICE,  \* a voice-file path is configured (non-empty)
    voiceOnDisk,  \* os.path.exists(PIPER_VOICE) as of now
    tmpFiles,     \* names of the temporary files that exist on disk
    tmpCount,     \* temporary files created since startup
    endpoint,     \* the route of the request being (or last) handled
    pc,           \* position inside the handler; "ready" between requests
    response,     \* the response of the request, once it has one
    upstream,     \* the chat backend's answer to the latest HTTP exchange
    prompt,       \* the request's prompt (chat, chat_stream)
    calls,        \* message lists of the completion calls of this request
    text,         \* chat_stream.gen: text
    i,            \* chat_stream.gen: i
    events,       \* chat_stream.gen: the SSE frames yielded so far
    pieces,       \* chat_stream.gen: the values `piece` has taken
    apath,        \* stt.path / voice_chat.apath (0: none)
    stages,       \* voice_chat: the engine calls made, with their outcome
    user_text,    \* voice_chat: user_text
    reply,        \* voice_chat: reply
    wav_path,     \* tts / voice_chat: wav_path (0: none)
    wavSize,      \* size in bytes of the WAV file Piper wrote
    pos,          \* tts.wav_iter: read offset of f
    chunks,       \* tts.wav_iter: the chunks yielded, as [off, len]
    voiceSeen     \* the voice file existed at some moment of this request

vars == << PIPER_BIN, PIPER_VOICE, voiceOnDisk, tmpFiles, tmpCount, endpoint, pc,
           response, upstream, prompt, calls, text, i, events, pieces,
           apath, stages, user_text, reply, wav_path, wavSize, pos, chunks,
           voiceSeen >>

cfgVars    == << PIPER_BIN, PIPER_VOICE >>
fsVars     == << PIPER_BIN, PIPER_VOICE, voiceOnDisk, tmpFiles, tmpCount, voiceSeen >>
streamVars == << text, i, events, pieces >>
voiceVars  == << apath, stages, user_text, reply >>
wavVars    == << wav_path, wavSize, pos, chunks >>

----------------------------------------------------------------------------
(* Bounds of the model *)

MaxPad  == 81   \* ordinary characters before the blank run of a reply
MaxMid  == 2    \* length of the run of blanks and line breaks inside a reply
MaxTail == 1    \* ordinary characters after that run
MaxTmp  == 3    \* temporary files created in one run
MaxFull == 2    \* full 8 KiB blocks of a synthesized WAV file

----------------------------------------------------------------------------
(* Text *)

LineBreaks == {10, 13}
Whitespace == {10, 13, 32}

Min(a, b) == IF a < b THEN a ELSE b

\* s[lo:hi] of Python, for 0 <= lo
Slice(s, lo, hi) == SubSeq(s, lo + 1, Min(hi, Len(s)))

RECURSIVE lstrip(_)
lstrip(s) ==
    IF s # << >> /\ Head(s) \in Whitespace THEN lstrip(Tail(s)) ELSE s

RECURSIVE rstrip(_)
rstrip(s) ==
    IF s # << >> /\ s[Len(s)] \in Whitespace
    THEN rstrip(SubSeq(s, 1, Len(s) - 1))
    ELSE s

strip(s) == rstrip(lstrip(s))

\* str.splitlines(): break at LF, CR and CR LF; no empty last line
RECURSIVE SplitFrom(_, _, _, _)
SplitFrom(s, k, cur, acc) ==
    IF k > Len(s)
    THEN IF cur # << >> THEN Append(acc, cur) ELSE acc
    ELSE IF s[k] \in LineBreaks
         THEN LET step == IF s[k] = 13 /\ k < Len(s) /\ s[k + 1] = 10
                          THEN 2 ELSE 1
              IN  SplitFrom(s, k + step, << >>, Append(acc, cur))
         ELSE SplitFrom(s, k + 1, Append(cur, s[k]), acc)

splitlines(s) == SplitFrom(s, 1, << >>, << >>)

\* the ordinary characters at positions lo+1 .. lo+n of a generated text
Run(lo, n) == [j \in 1..n |-> 100 + lo + j]

RECURSIVE SeqsUpTo(_, _)
SeqsUpTo(S, n) ==
    IF n = 0 THEN {<< >>}
    ELSE LET shorter == SeqsUpTo(S, n - 1)
         IN  shorter \cup {Append(s, c) : s \in shorter, c \in S}

----------------------------------------------------------------------------
(* The chat backend *)

Prompts == {<< >>, <<101, 102>>}

\* message contents the backend may answer with
ShortContents == {<< >>, <<32, 101, 32>>, <<101, 10, 102>>}

StreamContents ==
    {Run(0, k1) \o mid \o Run(k1 + Len(mid), k2) :
        k1 \in 0..MaxPad, mid \in SeqsUpTo(Whitespace, MaxMid), k2 \in 0..MaxTail}

NoUpstream == [kind |-> "none", status |-> 0, fields |-> FALSE, content |-> << >>]

\* what an HTTP exchange with the backend can come to: no response at all
\* (connection refused, timeout), or a response with a status and a body
\* that has, or has not, choices[0].message.content
Exchanges(contents) ==
    {[kind |-> "transport", status |-> 0, fields |-> FALSE, content |-> << >>]}
    \cup [kind : {"http"}, status : {200, 204, 404, 500}, fields : {FALSE},
          content : {<< >>}]
    \cup [kind : {"http"}, status : {200, 204, 404, 500}, fields : {TRUE},
          content : contents]

\* (mutant) only server errors raise
raise_for_5xx(status) == status >= 500

\* r.raise_for_status() raises
raise_for_status(status) == ~(status >= 200 /\ status <= 299)

\* the body of the try block around the completion call: ok with the trimmed
\* content of the first choice, or the exception the block ends with
Completion(x) ==
    IF x.kind # "http" THEN [ok |-> FALSE, cause |-> "transport", text |-> << >>]
    ELSE IF raise_for_status(x.status)
         THEN [ok |-> FALSE, cause |-> "status", text |-> << >>]
    ELSE IF ~x.fields
         THEN [ok |-> FALSE, cause |-> "malformed", text |-> << >>]
    ELSE [ok |-> TRUE, cause |-> "", text |-> strip(x.content)]

UserMessage(p) == << [role |-> "user", content |-> p] >>

NoResponse == [status |-> 0, kind |-> "none"]

----------------------------------------------------------------------------
(* State after startup *)

Init ==
    /\ PIPER_BIN \in BOOLEAN
    /\ PIPER_VOICE \in BOOLEAN
    /\ voiceOnDisk \in BOOLEAN
    /\ voiceOnDisk => PIPER_VOICE      \* os.path.exists("") is False
    /\ tmpFiles = {}
    /\ tmpCount = 0
    /\ endpoint = "none"
    /\ pc = "ready"
    /\ response = NoResponse
    /\ upstream = NoUpstream
    /\ prompt = << >>
    /\ calls = << >>
    /\ text = << >>
    /\ i = 0
    /\ events = << >>
    /\ pieces = << >>
    /\ apath = 0
    /\ stages = << >>
    /\ user_text = << >>
    /\ reply = << >>
    /\ wav_path = 0
    /\ wavSize = 0
    /\ pos = 0
    /\ chunks = << >>
    /\ voiceSeen = voiceOnDisk

\* a request starts with the locals of its handler unset: nothing of an
\* earlier request is kept
NoChat   == upstream' = NoUpstream /\ prompt' = << >> /\ calls' = << >>
NoStream == text' = << >> /\ i' = 0 /\ events' = << >> /\ pieces' = << >>
NoVoice  == apath' = 0 /\ stages' = << >> /\ user_text' = << >> /\ reply' = << >>
NoWav    == wav_path' = 0 /\ wavSize' = 0 /\ pos' = 0 /\ chunks' = << >>

----------------------------------------------------------------------------
(* GET /chat_stream *)

CHUNK == 40

StartData    == <<201>>   \* {"status":"starting"}
ErrorData    == <<202>>   \* {"message": "LM Studio error: ..."}
EndErrorData == <<203>>   \* {"status":"error"}
DoneData     == <<204>>   \* {"status":"ok"}
EndData      == <<205>>   \* {"status":"complete"}

\* one SSE frame: the event line, the data lines, the closing blank line
_sse_format(event, data) ==
    [event |-> event,
     data  |-> IF splitlines(data) = << >> THEN << << >> >> ELSE splitlines(data)]

\* (mutant) the slice stops one character early
PieceOneShort(t, k) == Slice(t, k, k + CHUNK - 1)

Piece(t, k) == Slice(t, k, k + CHUNK)

StreamStart ==
    /\ pc = "ready"
    /\ \E p \in Prompts : prompt' = p
    /\ endpoint' = "chat_stream"
    /\ events' = << _sse_format("start", StartData) >>
    /\ text' = << >>
    /\ i' = 0
    /\ pieces' = << >>
    /\ calls' = << >>
    /\ upstream' = NoUpstream
    /\ response' = [status |-> 200, kind |-> "event-stream"]
    /\ pc' = "gen_call"
    /\ UNCHANGED << fsVars, voiceVars, wavVars >>

StreamCall ==
    /\ pc = "gen_call"
    /\ \E x \in Exchanges(StreamContents) :
        /\ upstream' = x
        /\ calls' = Append(calls, UserMessage(prompt))
        /\ IF Completion(x).ok
           THEN /\ text' = Completion(x).text
                /\ pc' = "gen_loop"
                /\ UNCHANGED events
           ELSE /\ events' = Append(events, _sse_format("error", ErrorData))
                /\ pc' = "gen_failed"
                /\ UNCHANGED text
    /\ UNCHANGED << fsVars, voiceVars, wavVars, endpoint, response, prompt,
                    i, pieces >>

\* (mutant) the except block lacks its return and falls into the loop
StreamErrorEndNoReturn ==
    /\ pc = "gen_failed"
    /\ events' = Append(events, _sse_format("end", EndErrorData))
    /\ pc' = "gen_loop"
    /\ UNCHANGED << fsVars, voiceVars, wavVars, endpoint, response, prompt,
                    upstream, calls, text, i, pieces >>

StreamErrorEnd ==
    /\ pc = "gen_failed"
    /\ events' = Append(events, _sse_format("end", EndErrorData))
    /\ pc' = "ready"
    /\ UNCHANGED << fsVars, voiceVars, wavVars, endpoint, response, prompt,
                    upstream, calls, text, i, pieces >>

StreamToken ==
    /\ pc = "gen_loop"
    /\ i < Len(text)
    /\ pieces' = Append(pieces, Piece(text, i))
    /\ events' = Append(events, _sse_format("token", Piece(text, i)))
    /\ i' = i + CHUNK
    /\ UNCHANGED << fsVars, voiceVars, wavVars, endpoint, response, prompt,
                    upstream, calls, text, pc >>

StreamDone ==
    /\ pc = "gen_loop"
    /\ ~(i < Len(text))
    /\ events' = Append(events, _sse_format("done", DoneData))
    /\ pc' = "gen_end"
    /\ UNCHANGED << fsVars, voiceVars, wavVars, endpoint, response, prompt,
                    upstream, calls, text, i, pieces >>

StreamEnd ==
    /\ pc = "gen_end"
    /\ events' = Append(events, _sse_format("end", EndData))
    /\ pc' = "ready"
    /\ UNCHANGED << fsVars, voiceVars, wavVars, endpoint, response, prompt,
                    upstream, calls, text, i, pieces >>

NextStream ==
    \/ StreamStart
    \/ StreamCall
    \/ StreamErrorEnd
    \/ StreamToken
    \/ StreamDone
    \/ StreamEnd

SpecStream == Init /\ [][NextStream]_vars

----------------------------------------------------------------------------
(* GET /health *)

\* (mutant) any 2xx status counts as reachable
lm_ok_2xx(x) == x.kind = "http" /\ x.status >= 200 /\ x.status <= 299

lm_ok(x) == x.kind = "http" /\ x.status = 200

lm_msg(x) ==
    IF x.kind # "http" THEN "error"
    ELSE IF lm_ok(x) THEN "ok" ELSE "HTTP status"

piper_ok == PIPER_BIN /\ PIPER_VOICE /\ voiceOnDisk

health ==
    /\ pc = "ready"
    /\ \E x \in Exchanges({}) :
        /\ upstream' = x
        /\ response' = [status |-> 200, kind |-> "health",
                        lm_studio |-> [ok |-> lm_ok(x), note |-> lm_msg(x)],
                        whisper |-> [ok |-> TRUE],
                        piper |-> [ok |-> piper_ok]]
    /\ endpoint' = "health"
    /\ prompt' = << >>
    /\ calls' = << >>
    /\ NoVoice
    /\ NoWav
    /\ voiceSeen' = voiceOnDisk
    /\ UNCHANGED << cfgVars, voiceOnDisk, tmpFiles, tmpCount, pc, streamVars >>

----------------------------------------------------------------------------
(* POST /chat *)

ChatResponse(r) ==
    IF r.ok
    THEN [status |-> 200, kind |-> "chat", text |-> r.text, cause |-> ""]
    ELSE [status |-> 500, kind |-> "lmstudio_error", text |-> << >>,
          cause |-> r.cause]

chat ==
    /\ pc = "ready"
    /\ \E p \in Prompts, x \in Exchanges(ShortContents) :
        /\ prompt' = p
        /\ calls' = << UserMessage(p) >>
        /\ upstream' = x
        /\ response' = ChatResponse(Completion(x))
    /\ endpoint' = "chat"
    /\ NoVoice
    /\ NoWav
    /\ voiceSeen' = voiceOnDisk
    /\ UNCHANGED << cfgVars, voiceOnDisk, tmpFiles, tmpCount, pc, streamVars >>

----------------------------------------------------------------------------
(* Temporary files and the transcription engine *)

\* tempfile.NamedTemporaryFile(delete=False): a name not used before
mkstemp == tmpCount + 1

\* whisper.transcribe() returns normally, raises, or returns a segment
\* generator that raises once it is iterated
Transcriptions == {"ok", "raise", "raise_in_segments"}

Transcripts == {<< >>, <<101, 102>>}

UnhandledError == [status |-> 500, kind |-> "unhandled"]

----------------------------------------------------------------------------
(* POST /stt *)

SttUpload ==
    /\ pc = "ready"
    /\ tmpCount < MaxTmp
    /\ apath' = mkstemp
    /\ tmpCount' = tmpCount + 1
    /\ tmpFiles' = tmpFiles \cup {mkstemp}
    /\ endpoint' = "stt"
    /\ response' = NoResponse
    /\ stages' = << >>
    /\ user_text' = << >>
    /\ reply' = << >>
    /\ NoChat
    /\ NoWav
    /\ voiceSeen' = voiceOnDisk
    /\ pc' = "stt_transcribe"
    /\ UNCHANGED << cfgVars, voiceOnDisk, streamVars >>

SttTranscribe ==
    /\ pc = "stt_transcribe"
    /\ \E outcome \in Transcriptions, t \in Transcripts :
        /\ stages' = Append(stages, [stage |-> "stt", ok |-> outcome = "ok"])
        /\ IF outcome = "raise"
           THEN /\ response' = UnhandledError
                /\ UNCHANGED tmpFiles
           ELSE /\ tmpFiles' = tmpFiles \ {apath}
                /\ response' = IF outcome = "ok"
                               THEN [status |-> 200, kind |-> "stt", text |-> t]
                               ELSE UnhandledError
    /\ pc' = "ready"
    /\ UNCHANGED << cfgVars, voiceOnDisk, tmpCount, voiceSeen, endpoint,
                    upstream, prompt, calls, streamVars, apath, user_text,
                    reply, wavVars >>

----------------------------------------------------------------------------
(* POST /tts *)

READ == 8192

WavSizes == {q * READ + r : q \in 0..MaxFull, r \in {0, 1, READ - 1}}

TtsConfigured == PIPER_BIN /\ PIPER_VOICE /\ voiceOnDisk

\* the handler up to its return: the configuration check, the output file,
\* the synthesizer run
tts ==
    /\ pc = "ready"
    /\ endpoint' = "tts"
    /\ NoChat
    /\ NoVoice
    /\ voiceSeen' = voiceOnDisk
    /\ IF ~TtsConfigured
       THEN /\ response' = [status |-> 501, kind |-> "not_configured"]
            /\ wav_path' = 0
            /\ wavSize' = 0
            /\ pc' = "ready"
            /\ UNCHANGED << tmpFiles, tmpCount >>
       ELSE /\ tmpCount < MaxTmp
            /\ wav_path' = mkstemp
            /\ tmpCount' = tmpCount + 1
            /\ tmpFiles' = tmpFiles \cup {mkstemp}
            /\ \E exit \in {"zero", "nonzero"}, n \in WavSizes :
                IF exit = "nonzero"
                THEN /\ response' = [status |-> 500, kind |-> "piper_failed"]
                     /\ wavSize' = 0
                     /\ pc' = "ready"
                ELSE /\ response' = [status |-> 200, kind |-> "audio/wav"]
                     /\ wavSize' = n
                     /\ pc' = "wav_iter"
    /\ pos' = 0
    /\ chunks' = << >>
    /\ UNCHANGED << cfgVars, voiceOnDisk, streamVars >>

\* (mutant) the file is unlinked as soon as it is open
WavIterNextUnlinkFirst ==
    /\ pc = "wav_iter"
    /\ LET n == Min(READ, wavSize - pos)
       IN  IF n = 0
           THEN /\ tmpFiles' = tmpFiles \ {wav_path}
                /\ pc' = "ready"
                /\ UNCHANGED << pos, chunks >>
           ELSE /\ chunks' = Append(chunks, [off |-> pos, len |-> n])
                /\ pos' = pos + n
                /\ tmpFiles' = tmpFiles \ {wav_path}
                /\ UNCHANGED pc
    /\ UNCHANGED << cfgVars, voiceOnDisk, tmpCount, voiceSeen, endpoint,
                    response, upstream, prompt, calls, streamVars, voiceVars,
                    wav_path, wavSize >>

\* the consumer asks wav_iter for the next chunk
WavIterNext ==
    /\ pc = "wav_iter"
    /\ LET n == Min(READ, wavSize - pos)
       IN  IF n = 0
           THEN /\ tmpFiles' = tmpFiles \ {wav_path}
                /\ pc' = "ready"
                /\ UNCHANGED << pos, chunks >>
           ELSE /\ chunks' = Append(chunks, [off |-> pos, len |-> n])
                /\ pos' = pos + n
                /\ UNCHANGED << tmpFiles, pc >>
    /\ UNCHANGED << cfgVars, voiceOnDisk, tmpCount, voiceSeen, endpoint,
                    response, upstream, prompt, calls, streamVars, voiceVars,
                    wav_path, wavSize >>

\* the consumer goes away before the body is exhausted: wav_iter is closed
\* where it stands (or never started) and runs nothing after its loop
WavIterClose ==
    /\ pc = "wav_iter"
    /\ pc' = "ready"
    /\ UNCHANGED << fsVars, endpoint, response, upstream, prompt, calls,
                    streamVars, voiceVars, wavVars >>

----------------------------------------------------------------------------
(* POST /voice-chat *)

\* (mutant) the voice file is not looked up on disk
VoiceChatConfiguredNoLookup == PIPER_BIN /\ PIPER_VOICE

VoiceChatConfigured == PIPER_BIN /\ PIPER_VOICE /\ voiceOnDisk

VoiceChatUpload ==
    /\ pc = "ready"
    /\ tmpCount + 2 <= MaxTmp
    /\ apath' = mkstemp
    /\ tmpCount' = tmpCount + 1
    /\ tmpFiles' = tmpFiles \cup {mkstemp}
    /\ endpoint' = "voice-chat"
    /\ response' = NoResponse
    /\ stages' = << >>
    /\ user_text' = << >>
    /\ reply' = << >>
    /\ NoChat
    /\ NoWav
    /\ voiceSeen' = voiceOnDisk
    /\ pc' = "vc_stt"
    /\ UNCHANGED << cfgVars, voiceOnDisk, streamVars >>

VoiceChatSTT ==
    /\ pc = "vc_stt"
    /\ \E outcome \in Transcriptions, t \in Transcripts :
        /\ stages' = Append(stages, [stage |-> "stt", ok |-> outcome = "ok"])
        /\ tmpFiles' = IF outcome = "raise" THEN tmpFiles ELSE tmpFiles \ {apath}
        /\ IF outcome = "ok"
           THEN /\ user_text' = t
                /\ pc' = "vc_chat"
                /\ UNCHANGED response
           ELSE /\ response' = UnhandledError
                /\ pc' = "ready"
                /\ UNCHANGED user_text
    /\ UNCHANGED << cfgVars, voiceOnDisk, tmpCount, voiceSeen, endpoint,
                    upstream, prompt, calls, streamVars, apath, reply,
                    wavVars >>

\* (mutant) a failed completion is swallowed and synthesis goes on
VoiceChatChatSwallow ==
    /\ pc = "vc_chat"
    /\ \E x \in Exchanges(ShortContents) :
        /\ upstream' = x
        /\ calls' = Append(calls, UserMessage(user_text))
        /\ stages' = Append(stages, [stage |-> "chat", ok |-> Completion(x).ok])
        /\ reply' = Completion(x).text
        /\ pc' = "vc_tts"
        /\ UNCHANGED response
    /\ UNCHANGED << fsVars, endpoint, prompt, streamVars, apath, user_text,
                    wavVars >>

VoiceChatChat ==
    /\ pc = "vc_chat"
    /\ \E x \in Exchanges(ShortContents) :
        /\ upstream' = x
        /\ calls' = Append(calls, UserMessage(user_text))
        /\ stages' = Append(stages, [stage |-> "chat", ok |-> Completion(x).ok])
        /\ IF Completion(x).ok
           THEN /\ reply' = Completion(x).text
                /\ pc' = "vc_tts"
                /\ UNCHANGED response
           ELSE /\ response' = ChatResponse(Completion(x))
                /\ pc' = "ready"
                /\ UNCHANGED reply
    /\ UNCHANGED << fsVars, endpoint, prompt, streamVars, apath, user_text,
                    wavVars >>

\* the check of the configuration, the synthesizer run, the encoding
VoiceChatTTS ==
    /\ pc = "vc_tts"
    /\ IF ~VoiceChatConfigured
       THEN /\ response' = [status |-> 501, kind |-> "not_configured"]
            /\ UNCHANGED << tmpFiles, tmpCount, stages, wav_path, wavSize >>
       ELSE /\ wav_path' = mkstemp
            /\ tmpCount' = tmpCount + 1
            /\ \E exit \in {"zero", "nonzero"}, n \in WavSizes :
                /\ stages' = Append(stages,
                                    [stage |-> "tts", ok |-> exit = "zero"])
                /\ IF exit = "nonzero"
                   THEN /\ response' = [status |-> 500, kind |-> "piper_error"]
                        /\ tmpFiles' = tmpFiles \cup {mkstemp}
                        /\ wavSize' = 0
                   ELSE /\ response' = [status |-> 200, kind |-> "voice-chat",
                                        text |-> reply, mime |-> "audio/wav",
                                        audio_base64 |-> n,
                                        prompt |-> user_text]
                        /\ tmpFiles' = tmpFiles
                        /\ wavSize' = n
    /\ pc' = "ready"
    /\ UNCHANGED << cfgVars, voiceOnDisk, voiceSeen, endpoint, upstream,
                    prompt, calls, streamVars, apath, user_text, reply, pos,
                    chunks >>

----------------------------------------------------------------------------
(* The voice file is put on, or taken off, the disk by the operator *)

VoiceFileCreated ==
    /\ PIPER_VOICE
    /\ ~voiceOnDisk
    /\ voiceOnDisk' = TRUE
    /\ voiceSeen' = (voiceSeen \/ pc # "ready")
    /\ UNCHANGED << cfgVars, tmpFiles, tmpCount, endpoint, pc, response,
                    upstream, prompt, calls, streamVars, voiceVars, wavVars >>

VoiceFileRemoved ==
    /\ voiceOnDisk
    /\ voiceOnDisk' = FALSE
    /\ UNCHANGED << cfgVars, voiceSeen, tmpFiles, tmpCount, endpoint, pc,
                    response, upstream, prompt, calls, streamVars, voiceVars,
                    wavVars >>

Next ==
    \/ health
    \/ chat
    \/ SttUpload
    \/ SttTranscribe
    \/ tts
    \/ WavIterNext
    \/ WavIterClose
    \/ VoiceChatUpload
    \/ VoiceChatSTT
    \/ VoiceChatChat
    \/ VoiceChatTTS
    \/ VoiceFileCreated
    \/ VoiceFileRemoved

Spec == Init /\ [][Next]_vars

----------------------------------------------------------------------------
(* Properties of /chat_stream, under SpecStream *)

EventNames == [k \in 1..Len(events) |-> events[k].event]

Tokens(n) == [k \in 1..n |-> "token"]

FailureShape == <<"start", "error", "end">>

SuccessShape(n) == <<"start">> \o Tokens(n) \o <<"done", "end">>

IsPrefix(s, t) == Len(s) <= Len(t) /\ SubSeq(t, 1, Len(s)) = s

StreamOver == endpoint = "chat_stream" /\ pc = "ready"

StreamSucceeded == endpoint = "chat_stream" /\ Completion(upstream).ok

LastData == events[Len(events)].data

\* what an SSE client reads from a frame: its data lines joined by LF
RECURSIVE JoinLines(_)
JoinLines(lines) ==
    IF Len(lines) = 1 THEN lines[1]
    ELSE lines[1] \o <<10>> \o JoinLines(Tail(lines))

RECURSIVE TokenPayloads(_)
TokenPayloads(frames) ==
    IF frames = << >> THEN << >>
    ELSE (IF Head(frames).event = "token" THEN JoinLines(Head(frames).data)
          ELSE << >>) \o TokenPayloads(Tail(frames))

CeilDiv(n, d) == (n + d - 1) \div d

\* C1 as stated: the events of a stream are start, error, end (status error)
\* when the backend call failed, and start, one or more token, done, end
\* (status complete) when it succeeded; no other order, and nothing after end.
C1_ShapeWithAtLeastOneToken ==
    endpoint = "chat_stream" =>
        \/ /\ IsPrefix(EventNames, FailureShape)
           /\ Len(events) >= 2 => ~Completion(upstream).ok
           /\ pc = "ready" => /\ EventNames = FailureShape
                              /\ LastData = <<EndErrorData>>
        \/ \E n \in 1..(Len(events) + 1) :
            /\ IsPrefix(EventNames, SuccessShape(n))
            /\ pc = "ready" => /\ EventNames = SuccessShape(n)
                               /\ LastData = <<EndData>>
                               /\ Completion(upstream).ok

\* C1 as amended: the same with zero or more token events, none exactly when
\* the trimmed reply is empty.
C1_StreamShape ==
    endpoint = "chat_stream" =>
        \/ /\ IsPrefix(EventNames, FailureShape)
           /\ Len(events) >= 2 => ~Completion(upstream).ok
           /\ pc = "ready" => /\ EventNames = FailureShape
                              /\ LastData = <<EndErrorData>>
        \/ \E n \in 0..Len(events) :
            /\ IsPrefix(EventNames, SuccessShape(n))
            /\ pc = "ready" => /\ EventNames = SuccessShape(n)
                               /\ LastData = <<EndData>>
                               /\ Completion(upstream).ok
                               /\ (n = 0) <=> (text = << >>)

C1_Witness ==
    StreamOver /\ EventNames = SuccessShape(3)

\* C2: on the success path, the payloads of the token frames, as an SSE
\* client reads them from the data lines, concatenate to the trimmed reply.
C2_PayloadsReproduceReply ==
    StreamOver /\ StreamSucceeded => TokenPayloads(events) = text

\* C8: a reply of n characters is cut into ceil(n/40) pieces, piece k being
\* the characters 40k+1 .. min(40k+40, n) of it, one token event per piece;
\* a reply of 35 characters is one piece, the reply itself.
C8_Pieces ==
    StreamSucceeded /\ pc \in {"gen_loop", "gen_end", "ready"} =>
        /\ \A k \in 1..Len(pieces) :
            /\ pieces[k] = SubSeq(text, 40 * (k - 1) + 1, Min(40 * k, Len(text)))
            /\ Len(pieces[k]) >= 1 /\ Len(pieces[k]) <= 40
            /\ k < CeilDiv(Len(text), 40) => Len(pieces[k]) = 40
        /\ Len(pieces) <= CeilDiv(Len(text), 40)
        /\ Cardinality({k \in 1..Len(events) : events[k].event = "token"})
               = Len(pieces)
        /\ pc \in {"gen_end", "ready"} =>
            /\ Len(pieces) = CeilDiv(Len(text), 40)
            /\ Len(text) = 35 => pieces = <<text>>

C8_Witness ==
    StreamOver /\ StreamSucceeded /\ Len(text) = 81 /\ Len(pieces) = 3
        /\ Len(pieces[3]) = 1

----------------------------------------------------------------------------
(* Properties of the other routes, under Spec *)

RequestOver(route) == endpoint = route /\ pc = "ready"

\* t is c without its leading and trailing blanks
IsTrimOf(t, c) ==
    \E lo \in 0..Len(c), hi \in 0..Len(c) :
        /\ lo <= hi
        /\ t = SubSeq(c, lo + 1, hi)
        /\ \A k \in 1..lo : c[k] \in Whitespace
        /\ \A k \in (hi + 1)..Len(c) : c[k] \in Whitespace
        /\ t # << >> => t[1] \notin Whitespace /\ t[Len(t)] \notin Whitespace

StageNames == [k \in 1..Len(stages) |-> stages[k].stage]

StageError(stage) ==
    CASE stage = "stt"  -> "unhandled"
      [] stage = "chat" -> "lmstudio_error"
      [] stage = "tts"  -> "piper_error"

\* C3 as stated: with the voice file absent from the disk during the
\* request, /tts and /voice-chat end 501, whatever the other stages did.
C3_AlwaysNotImplemented ==
    (RequestOver("tts") \/ RequestOver("voice-chat")) /\ ~voiceSeen =>
        response.status = 501

\* C3 as amended: with the voice file absent from the disk during the
\* request, /tts ends 501; /voice-chat ends 501 when transcription and the
\* chat call succeeded, and with the failed stage's error (500) otherwise.
C3_NotImplementedOnceReached ==
    /\ RequestOver("tts") /\ ~voiceSeen => response.status = 501
    /\ RequestOver("voice-chat") /\ ~voiceSeen =>
        IF \A k \in 1..Len(stages) : stages[k].ok
        THEN response.status = 501 /\ StageNames = <<"stt", "chat">>
        ELSE /\ response.status = 500
             /\ response.kind = StageError(stages[Len(stages)].stage)

C3_Witness ==
    /\ RequestOver("voice-chat")
    /\ PIPER_BIN /\ PIPER_VOICE /\ ~voiceSeen
    /\ tmpCount > 1
    /\ response.status = 501

\* C4: the stages of /voice-chat run in the order transcription, chat call,
\* synthesis, each at most once; after a failed stage none is started and the
\* response is that stage's error; the success payload needs three successes.
C4_Pipeline ==
    endpoint = "voice-chat" =>
        /\ IsPrefix(StageNames, <<"stt", "chat", "tts">>)
        /\ \A k \in 1..(Len(stages) - 1) : stages[k].ok
        /\ Len(calls) = Cardinality({k \in 1..Len(stages) : stages[k].stage = "chat"})
        /\ pc # "ready" => response = NoResponse
        /\ pc = "ready" =>
            /\ stages # << >>
            /\ LET last == stages[Len(stages)]
               IN  IF ~last.ok
                   THEN /\ response.status = 500
                        /\ response.kind = StageError(last.stage)
                   ELSE IF Len(stages) = 3
                   THEN /\ response.status = 200
                        /\ DOMAIN response = {"status", "kind", "text", "mime",
                                              "audio_base64", "prompt"}
                        /\ response.text = reply
                        /\ response.prompt = user_text
                   ELSE response.status = 501 /\ Len(stages) = 2

C4_Witness ==
    /\ RequestOver("voice-chat")
    /\ Len(stages) = 2 /\ ~stages[2].ok
    /\ response.kind = "lmstudio_error"

\* C5: once /stt or /voice-chat has finished, the temporary file of the
\* upload is gone, whether transcription returned or raised.
C5_UploadRemoved ==
    RequestOver("stt") \/ RequestOver("voice-chat") => apath \notin tmpFiles

\* C6: /chat makes one completion call, with the prompt as its only (user)
\* message, and ends either with the trimmed content of the first choice or
\* with a 500 carrying the cause; no response, a non-2xx status and a body
\* without the expected fields all end in the 500.
C6_ChatOneCall ==
    endpoint = "chat" =>
        /\ calls = << << [role |-> "user", content |-> prompt] >> >>
        /\ IF /\ upstream.kind = "http"
              /\ upstream.status \in 200..299
              /\ upstream.fields
           THEN /\ response.status = 200
                /\ response.kind = "chat"
                /\ IsTrimOf(response.text, upstream.content)
           ELSE /\ response.status = 500
                /\ response.kind = "lmstudio_error"
                /\ response.cause \in {"transport", "status", "malformed"}

C6_Witness ==
    /\ endpoint = "chat"
    /\ response.status = 200
    /\ response.text # upstream.content
    /\ response.text # << >>

\* C7: /health always answers with a status record: the backend is reported
\* reachable exactly when the probe returned 200, synthesis ready exactly
\* when the executable was resolved, the voice path is configured and the
\* file was on disk at the call.
C7_Health ==
    endpoint = "health" =>
        /\ response.status = 200
        /\ response.kind = "health"
        /\ response.lm_studio.ok <=> (upstream.kind = "http" /\ upstream.status = 200)
        /\ response.piper.ok <=> (PIPER_BIN /\ PIPER_VOICE /\ voiceSeen)
        /\ response.whisper.ok

C7_Witness ==
    /\ endpoint = "health"
    /\ upstream.kind = "transport"
    /\ ~response.lm_studio.ok
    /\ response.piper.ok

\* C9: /tts yields chunks of at most 8192 bytes, each starting where the one
\* before ended, the first at offset 0; the file is deleted only once every
\* byte has been yielded.
C9_ChunksThenDelete ==
    endpoint = "tts" /\ response.status = 200 =>
        /\ \A k \in 1..Len(chunks) :
            /\ chunks[k].len >= 1 /\ chunks[k].len <= 8192
            /\ chunks[k].off = IF k = 1 THEN 0
                               ELSE chunks[k - 1].off + chunks[k - 1].len
        /\ pos = IF chunks = << >> THEN 0
                 ELSE chunks[Len(chunks)].off + chunks[Len(chunks)].len
        /\ pos <= wavSize
        /\ wav_path \notin tmpFiles => pos = wavSize

C9_Witness ==
    /\ RequestOver("tts")
    /\ wav_path # 0 /\ wav_path \notin tmpFiles
    /\ Len(chunks) = 3
    /\ pos = wavSize

\* C10: once /tts or /voice-chat has ended, the WAV file it allocated is
\* gone: on success, on synthesizer failure, and when the consumer stopped
\* reading early.
C10_WavRemoved ==
    (RequestOver("tts") \/ RequestOver("voice-chat")) /\ wav_path # 0 =>
        wav_path \notin tmpFiles

====
